---- MODULE Spec2Model ----
(***************************************************************************)
(* Lifecycle model of the pty package: allocation of the endpoint pair,    *)
(* launch of the attached child, the per-process monitor goroutine, the    *)
(* explicit Close paths and the guarded resize, for the three variants     *)
(* found in the sources:                                                   *)
(*   "conpty"  conPty/conFile/winProc  (unnamed/part_000:172-449,          *)
(*             start_windows.go, unnamed/part_003:93-167)                  *)
(*   "legacy"  conPty with closer func / windowsProcess                    *)
(*             (unnamed/part_000:1-170, run_windows.go,                    *)
(*             unnamed/part_004:13-57)                                     *)
(*   "unix"    start on the device-backed platform (unnamed/part_002)      *)
(* Platform calls (os.Pipe, CreatePseudoConsole, ClosePseudoConsole,       *)
(* ResizePseudoConsole, CreateProcess, Process.Wait) are modelled by       *)
(* their effect on a small platform state and a nondeterministic result.   *)
(***************************************************************************)
EXTENDS Integers, Sequences, FiniteSets, TLC

\* ------------------------------------------------------------------ bounds
MaxCalls == 2           \* calls issued by the caller tasks in one run
NumWaiters == 2         \* observers calling Process.Wait

\* ------------------------------------------------------------------ tasks
Closers == {"c1", "c2"}
Waiters == 1..NumWaiters
Impls == {"conpty", "legacy", "unix"}

\* pipe ends of the pipe-backed pair, descriptors of the device-backed pair
PipeEnds == {"pr", "pw", "consoler", "consolew"}
UnixFds == {"ptmx", "pts"}
Res == PipeEnds \cup UnixFds
SlaveEnds == {"consoler", "consolew", "pts"}

\* Winsize values handed to Setsize: <<rows, cols>>
Sizes == {<<24, 80>>, <<40, 120>>}
NoSize == <<0, 0>>

VARIABLES
  impl,         \* which variant of the package is built
  api,          \* position of the caller in Open/Start
  failStage,    \* where Open/Start failed: "none","alloc","opt","start"
  files,        \* [Res -> {"none","open","closed"}] the parent's os.File objects
  console,      \* conPty.console / conPty.handle: "zero","valid","invalid"
  closed,       \* conPty.closed
  closeMutex,   \* conPty.closeMutex: "free" or the task holding it
  hpc,          \* platform: the pseudo-console session: "none","live","dead"
  inDestroy,    \* platform: ClosePseudoConsole calls in progress
  destroyCalls, \* platform: ClosePseudoConsole calls issued so far
  destroyFailed,\* some ClosePseudoConsole call reported failure
  winsize,      \* platform: <<rows, cols>> of the session's window
  lastSet,      \* <<rows, cols>> of the last setsize call that returned nil
  child,        \* the child process: "none","running","exited"
  exitKind,     \* how it exited: "none","ok","fail","killed"
  mon,          \* program counter of the monitor goroutine
  monitors,     \* monitor goroutines started
  osWaits,      \* os.Process.Wait calls issued
  cmdErr,       \* winProc.cmdErr: "nil","WaitErr","ExitErr","CloseErr"
  cmdDone,      \* winProc.cmdDone is closed
  closer,       \* [Closers -> record] caller tasks inside a Close
  calls,        \* caller operations so far: Close, Setsize, GetsizeFull,
                \* Wait, Kill, Read, cancelling the context
  closeOk,      \* a Close of the master endpoint has returned nil
  resizer,      \* record: the caller task inside Setsize/GetsizeFull
  waiter,       \* [Waiters -> record] observers inside Process.Wait
  ctxDone,      \* cmd.Context is cancelled
  ctxAt,        \* where the process was when the context was cancelled:
                \* "none","running","exited","signalled"
  watcher,      \* killOnContext: "none","select","returned","killed"
  reader,       \* the caller task reading the master endpoint
  osWaiter,     \* the caller task inside os.Process.Wait on cmd.Process
                \* (legacy, unix): "none","blocked","returned"
  wiring,       \* platform: the pipe ends the session was created on,
                \* [in, out], "none" before the allocation
  openErr,      \* the error returned by open()/openPty()
  host,         \* the host as openPty found it: "none","old","new"
  closeProc,    \* closePseudoConsole.Find() of the legacy variant:
                \* "found","missing"
  envIn,        \* cmd.Env: a sequence of entries
  envOut,       \* the list handed to createEnvBlock
  envPc,        \* position in the environment merge
  inPipe,       \* bytes in the input pipe (pw -> consoler)
  outPipe,      \* bytes in the output pipe (consolew -> pr)
  sent,         \* [endpoint -> bytes written to it with a nil error]
  recv,         \* [endpoint -> bytes read from it]
  conGot,       \* bytes the session has taken from its input handle
  epCall        \* the last Fd/Setsize/GetsizeFull call on an endpoint

vars == <<impl, api, failStage, files, console, closed, closeMutex, hpc,
          inDestroy, destroyCalls, destroyFailed, winsize, lastSet, child,
          exitKind,
          mon, monitors, osWaits, cmdErr, cmdDone, closer, calls,
          closeOk, resizer, waiter, ctxDone, ctxAt, watcher, reader, osWaiter,
          wiring, openErr, host, closeProc, envIn, envOut, envPc, inPipe, outPipe,
          sent, recv, conGot, epCall>>

platformVars == <<hpc, inDestroy, destroyCalls, destroyFailed, winsize, lastSet>>
procVars == <<child, exitKind, mon, monitors, osWaits, cmdErr, cmdDone>>
callerVars == <<closer, calls, closeOk, resizer, waiter, reader, osWaiter>>
ctxVars == <<ctxDone, ctxAt, watcher>>
pairVars == <<files, console, closed, closeMutex>>
allocVars == <<wiring, openErr, host, closeProc>>
envVars == <<envIn, envOut, envPc>>
ioVars == <<inPipe, outPipe, sent, recv, conGot, epCall>>
sideVars == <<envVars, ioVars>>
lifeVars == <<impl, api, failStage, pairVars, platformVars, procVars,
              callerVars, ctxVars, allocVars>>

NoFiles == [f \in Res |-> "none"]
IdleCloser == [pc |-> "idle", method |-> "none", err |-> {}, returned |-> FALSE,
               afterWait |-> FALSE]
IdleResizer == [pc |-> "idle", op |-> "none", afterClose |-> FALSE,
                res |-> "none", got |-> NoSize]
IdleWaiter == [pc |-> "idle", early |-> FALSE, res |-> "none"]

NoWiring == [in |-> "none", out |-> "none"]
Endpoints == {"master", "slave"}
NoCall == [end |-> "none", op |-> "none", res |-> "none"]

\* os.File.Close: the first call closes the file and returns nil, a later
\* one returns os.ErrClosed
FileClose(fs, f) == [fs EXCEPT ![f] = "closed"]
FileCloseErr(fs, f) == IF fs[f] = "open" THEN {} ELSE {"ErrClosed"}

\* The pair, the process and the callers before Open/Start.
InitPair ==
  /\ impl \in Impls
  /\ api = "init"
  /\ failStage = "none"
  /\ files = NoFiles
  /\ console = "zero"
  /\ closed = FALSE
  /\ closeMutex = "free"
  /\ hpc = "none"
  /\ inDestroy = 0
  /\ destroyCalls = 0
  /\ destroyFailed = FALSE
  /\ winsize = NoSize
  /\ lastSet = NoSize
  /\ child = "none"
  /\ exitKind = "none"
  /\ mon = "none"
  /\ monitors = 0
  /\ osWaits = 0
  /\ cmdErr = "nil"
  /\ cmdDone = FALSE
  /\ closer = [c \in Closers |-> IdleCloser]
  /\ calls = 0
  /\ closeOk = FALSE
  /\ resizer = IdleResizer
  /\ waiter = [w \in Waiters |-> IdleWaiter]
  /\ ctxDone = FALSE
  /\ ctxAt = "none"
  /\ watcher = "none"
  /\ reader = "idle"
  /\ osWaiter = "none"
  /\ wiring = NoWiring
  /\ openErr = "nil"
  /\ host = "none"
  /\ closeProc \in (IF impl = "legacy" THEN {"found", "missing"} ELSE {"found"})

\* No environment list is being merged.
InitNoEnv == envIn = <<>> /\ envOut = <<>> /\ envPc = "off"

\* Both pipes are empty and no endpoint was used.
InitNoIO ==
  /\ inPipe = <<>> /\ outPipe = <<>>
  /\ sent = [e \in Endpoints |-> <<>>]
  /\ recv = [e \in Endpoints |-> <<>>]
  /\ conGot = <<>>
  /\ epCall = NoCall

Init == InitPair /\ InitNoEnv /\ InitNoIO

\* ------------------------------------------------------------- allocation
\* Result of openPty (conpty) for each place it can fail.  On "pipe2" the
\* first pipe is closed again, on "create" all four ends are.
OpenPtyOutcomes == {"unsupported", "pipe1", "pipe2", "create", "ok"}
openPty(o) ==
  [ok      |-> o = "ok",
   files   |-> CASE o = "ok"     -> [f \in Res |-> IF f \in PipeEnds THEN "open" ELSE "none"]
                 [] o = "create" -> [f \in Res |-> IF f \in PipeEnds THEN "closed" ELSE "none"]
                 [] o = "pipe2"  -> [f \in Res |-> IF f \in {"pr", "consolew"} THEN "closed" ELSE "none"]
                 [] OTHER        -> NoFiles,
   console |-> IF o = "ok" THEN "valid" ELSE "zero",
   hpc     |-> IF o = "ok" THEN "live" ELSE "none",
   winsize |-> IF o = "ok" THEN <<80, 80>> ELSE NoSize,
   wiring  |-> IF o = "ok" THEN [in |-> "consoler", out |-> "consoler"]
               ELSE NoWiring,
   err     |-> CASE o = "ok"          -> "nil"
                 [] o = "unsupported" -> "pty not supported"
                 [] o = "create"      -> "CreateErr"
                 [] OTHER             -> "PipeErr",
   host    |-> IF o = "unsupported" THEN "old" ELSE "new"]

\* Result of the legacy open(): after CreatePseudoConsole it closes the two
\* console-facing ends; when one of these Close calls fails it returns the
\* error and closes nothing else.  A failed Close leaves the os.File closed.
LegacyOpenOutcomes == {"pipe1", "pipe2", "create", "closeW", "closeR", "ok"}
legacyOpen(o) ==
  [ok      |-> o = "ok",
   files   |-> CASE o = "ok"     -> [f \in Res |-> IF f \in {"pr", "pw"} THEN "open"
                                               ELSE IF f \in PipeEnds THEN "closed" ELSE "none"]
                 [] o = "closeR" -> [f \in Res |-> IF f \in {"pr", "pw"} THEN "open"
                                               ELSE IF f \in PipeEnds THEN "closed" ELSE "none"]
                 [] o = "closeW" -> [f \in Res |-> IF f \in {"pr", "pw", "consoler"} THEN "open"
                                               ELSE IF f = "consolew" THEN "closed" ELSE "none"]
                 [] o = "create" -> [f \in Res |-> IF f \in PipeEnds THEN "closed" ELSE "none"]
                 [] o = "pipe2"  -> [f \in Res |-> IF f \in {"pr", "consolew"} THEN "closed" ELSE "none"]
                 [] OTHER        -> NoFiles,
   console |-> IF o = "ok" THEN "valid" ELSE "zero",
   hpc     |-> IF o \in {"ok", "closeW", "closeR"} THEN "live" ELSE "none",
   winsize |-> IF o \in {"ok", "closeW", "closeR"} THEN <<30, 80>> ELSE NoSize,
   wiring  |-> IF o \in {"ok", "closeW", "closeR"}
               THEN [in |-> "consoler", out |-> "consolew"] ELSE NoWiring,
   err     |-> CASE o = "ok"                   -> "nil"
                 [] o = "create"               -> "CreateErr"
                 [] o \in {"closeW", "closeR"} -> "CloseErr"
                 [] OTHER                      -> "PipeErr",
   host    |-> "none"]

\* The device-backed open(): the pair device is opened once and the slave
\* view derived from it; a failure closes what was opened.
UnixOpenOutcomes == {"ptmx", "pts", "ok"}
unixOpen(o) ==
  [ok      |-> o = "ok",
   files   |-> CASE o = "ok"  -> [f \in Res |-> IF f \in UnixFds THEN "open" ELSE "none"]
                 [] o = "pts" -> [f \in Res |-> IF f = "ptmx" THEN "closed" ELSE "none"]
                 [] OTHER     -> NoFiles,
   console |-> "zero",
   hpc     |-> "none",
   winsize |-> NoSize,
   wiring  |-> NoWiring,
   err     |-> IF o = "ok" THEN "nil" ELSE "OpenErr",
   host    |-> "none"]

AllocOutcomes == [conpty |-> OpenPtyOutcomes, legacy |-> LegacyOpenOutcomes,
                  unix |-> UnixOpenOutcomes]
Alloc(i, o) == CASE i = "conpty" -> openPty(o)
                 [] i = "legacy" -> legacyOpen(o)
                 [] OTHER        -> unixOpen(o)

\* Open(): allocation without a process; both endpoints go to the caller.
Open(o) ==
  /\ api = "init"
  /\ o \in AllocOutcomes[impl]
  /\ LET a == Alloc(impl, o) IN
       /\ files' = a.files
       /\ console' = a.console
       /\ hpc' = a.hpc
       /\ winsize' = a.winsize
       /\ wiring' = a.wiring
       /\ openErr' = a.err
       /\ host' = a.host
       /\ api' = IF a.ok THEN "opened" ELSE "failed"
       /\ failStage' = IF a.ok THEN "none" ELSE "alloc"
  /\ UNCHANGED <<impl, closeProc, sideVars, closed, closeMutex, inDestroy,
                 destroyCalls, destroyFailed, lastSet, procVars, callerVars,
                 ctxVars>>

\* Start: the allocation step at the head of StartWithAttrs / start.
StartOpen(o) ==
  /\ api = "init"
  /\ o \in AllocOutcomes[impl]
  /\ LET a == Alloc(impl, o) IN
       /\ files' = a.files
       /\ console' = a.console
       /\ hpc' = a.hpc
       /\ winsize' = a.winsize
       /\ wiring' = a.wiring
       /\ openErr' = a.err
       /\ host' = a.host
       /\ api' = IF a.ok THEN "allocated" ELSE "failed"
       /\ failStage' = IF a.ok THEN "none" ELSE "alloc"
  /\ UNCHANGED <<impl, closeProc, sideVars, closed, closeMutex, inDestroy,
                 destroyCalls, destroyFailed, lastSet, procVars, callerVars,
                 ctxVars>>

\* ------------------------------------------------------------------ launch
\* ClosePseudoConsole ends the session; a child still attached to it is
\* terminated with it.
ChildAfterDestroy(ch, ok) == IF ok /\ ch = "running" THEN "exited" ELSE ch
KindAfterDestroy(ch, k, ok) == IF ok /\ ch = "running" THEN "killed" ELSE k

\* setsize hands ResizePseudoConsole a windows.Coord packed into 32 bits:
\* X (the low word) holds the columns, Y (the high word) the rows.
PackCoord_Swapped(sz) == sz[1] + 65536 * sz[2]
PackCoord(sz) == sz[2] + 65536 * sz[1]

\* ResizePseudoConsole: the window of the session becomes Y rows by X columns.
ResizedWindow(coord) == <<coord \div 65536, coord % 65536>>

\* The window after a setsize call that returned nil; a nil *Winsize
\* (NoSize) is no call at all.
SetsizeWindow_NotApplied(sz, cur) == cur
SetsizeWindow(sz, cur) ==
  IF sz = NoSize THEN cur ELSE ResizedWindow(PackCoord(sz))

\* Setsize of the legacy variant hands windows.ResizePseudoConsole a
\* windows.Coord with X = ws.Cols and Y = ws.Rows.
CoordOf(sz) == [X |-> sz[2], Y |-> sz[1]]

\* windows.ResizePseudoConsole(handle, coord): Y rows by X columns.
WindowOf(coord) == <<coord.Y, coord.X>>

\* The window after a legacy Setsize that returned nil; NoSize is no call.
LegacySetsizeWindow(sz, cur) ==
  IF sz = NoSize THEN cur ELSE WindowOf(CoordOf(sz))

\* The device-backed Setsize stores the size in the terminal's size field.
UnixSetsizeWindow(sz, cur) == IF sz = NoSize THEN cur ELSE sz

\* GetConsoleScreenBufferInfo: the window rectangle of the session, with
\* inclusive corners.
ScreenBufferInfo(ws) ==
  [Left |-> 0, Top |-> 0, Right |-> ws[2] - 1, Bottom |-> ws[1] - 1]

\* getsizeFull: rows and columns from the window rectangle.
WinsizeOf(info) ==
  <<info.Bottom - info.Top + 1, info.Right - info.Left + 1>>

\* The error the deferred closure of StartWithAttrs tests: the function's
\* own err, assigned by openPty only.  The size and start steps bind their
\* error to a variable of the enclosing if statement, so a failure of these
\* steps (stepErr) never reaches it.
StartWithAttrsDeferErr(stepErr) == "nil"

\* StartWithAttrs, initial size: sz = NoSize stands for a nil *Winsize.
StartWithAttrsSetsize(sz, o) ==
  /\ impl = "conpty" /\ api = "allocated"
  /\ sz \in Sizes \cup {NoSize}
  /\ o \in {"ok", "fail"}
  /\ sz = NoSize => o = "ok"
  /\ closeMutex = "free"
  /\ IF o = "ok"
     THEN /\ winsize' = SetsizeWindow(sz, winsize)
          /\ lastSet' = IF sz = NoSize THEN lastSet ELSE sz
          /\ api' = "sized"
          /\ UNCHANGED <<failStage, files, console, hpc, destroyCalls>>
     ELSE /\ api' = "failed"
          /\ failStage' = "opt"
          /\ IF StartWithAttrsDeferErr("ResizeErr") # "nil"
             THEN /\ files' = FileClose(FileClose(files, "pr"), "pw")
                  /\ console' = "invalid"
                  /\ hpc' = "dead"
                  /\ destroyCalls' = destroyCalls + 1
             ELSE UNCHANGED <<files, console, hpc, destroyCalls>>
          /\ UNCHANGED <<winsize, lastSet>>
  /\ UNCHANGED <<impl, allocVars, sideVars, closed, closeMutex, inDestroy, destroyFailed,
                 procVars, callerVars, ctxVars>>

\* cmd.Context as handed to Start: nil, not yet cancelled, or cancelled
\* already (conPty.start does not look at it before the launch).
StartCtx == {"nil", "live", "done"}

\* conPty.start: the places it can fail, then the two goroutines.
StartOutcomes == {"lookPath", "attr", "create", "findProcess", "ok"}
conPtyStart(o, ctx) ==
  /\ impl = "conpty" /\ api = "sized"
  /\ o \in StartOutcomes
  /\ ctx \in StartCtx
  /\ IF o = "ok"
     THEN /\ api' = "started"
          /\ child' = "running"
          /\ mon' = "spawned"
          /\ monitors' = monitors + 1
          /\ watcher' = IF ctx # "nil" THEN "select" ELSE "none"
          /\ ctxDone' = (ctx = "done")
          /\ ctxAt' = IF ctx = "done" THEN "running" ELSE ctxAt
          /\ UNCHANGED <<failStage, files, console, hpc, destroyCalls>>
     ELSE /\ api' = "failed"
          /\ failStage' = "start"
          /\ child' = IF o = "findProcess" THEN "running" ELSE child
          /\ IF StartWithAttrsDeferErr(o) # "nil"
             THEN /\ files' = FileClose(FileClose(files, "pr"), "pw")
                  /\ console' = "invalid"
                  /\ hpc' = "dead"
                  /\ destroyCalls' = destroyCalls + 1
             ELSE UNCHANGED <<files, console, hpc, destroyCalls>>
          /\ UNCHANGED <<mon, monitors, ctxVars>>
  /\ UNCHANGED <<impl, allocVars, sideVars, closed, closeMutex, inDestroy, destroyFailed, winsize, lastSet,
                 exitKind, osWaits, cmdErr, cmdDone, callerVars>>

\* start (legacy and unix): the options loop, WithSize(sz) calling
\* Setsize(pty, sz).  A failing option returns (pty, err) before the deferred
\* close is registered.
startOpts(sz, o) ==
  /\ impl \in {"legacy", "unix"} /\ api = "allocated"
  /\ sz \in Sizes \cup {NoSize}
  /\ o \in {"ok", "fail"}
  /\ sz = NoSize => o = "ok"
  /\ IF o = "ok"
     THEN /\ api' = "sized"
          /\ winsize' = IF impl = "unix" THEN UnixSetsizeWindow(sz, winsize)
                         ELSE LegacySetsizeWindow(sz, winsize)
          /\ lastSet' = IF sz = NoSize THEN lastSet ELSE sz
          /\ UNCHANGED failStage
     ELSE /\ api' = "failed"
          /\ failStage' = "opt"
          /\ UNCHANGED <<winsize, lastSet>>
  /\ UNCHANGED <<impl, allocVars, sideVars, pairVars, hpc, inDestroy, destroyCalls, destroyFailed,
                 procVars, callerVars, ctxVars>>

\* winPtyConsoleCloser returns the error of closePseudoConsole.Find()
\* before it makes any call and keeps the handle.
ProcMissing == impl = "legacy" /\ closeProc = "missing"

\* What closeConsoleNoLock / winPtyConsoleCloser returns when the call did d
\* to the session: closeConsoleNoLock fails when the call's result is a
\* failure; winPtyConsoleCloser returns the error of LazyProc.Call whatever
\* the call did, and that error is never nil.
CloserResult(d) == IF impl = "legacy" THEN "fail" ELSE d

\* start (legacy): windowExecCmd.Start; on error the deferred pty.Close()
\* runs winPtyCloser (d is the result of its ClosePseudoConsole call).
legacyStart(o, d) ==
  /\ impl = "legacy" /\ api = "sized"
  /\ o \in StartOutcomes
  /\ d \in {"ok", "fail"}
  /\ o = "ok" => d = "ok"
  /\ IF o = "ok"
     THEN /\ api' = "started"
          /\ child' = "running"
          /\ mon' = "spawned"
          /\ monitors' = monitors + 1
          /\ UNCHANGED <<failStage, files, console, hpc, destroyCalls,
                         destroyFailed, exitKind>>
     ELSE /\ api' = "failed"
          /\ failStage' = "start"
          /\ files' = FileClose(FileClose(files, "pr"), "pw")
          /\ LET ch == IF o = "findProcess" THEN "running" ELSE child IN
               IF ProcMissing
               THEN /\ child' = ch
                    /\ UNCHANGED <<console, destroyCalls, destroyFailed, hpc,
                                   exitKind>>
               ELSE /\ console' = "invalid"
                    /\ destroyCalls' = destroyCalls + 1
                    /\ destroyFailed' = (destroyFailed \/ d = "fail")
                    /\ hpc' = IF d = "ok" THEN "dead" ELSE hpc
                    /\ child' = ChildAfterDestroy(ch, d = "ok")
                    /\ exitKind' = KindAfterDestroy(ch, exitKind, d = "ok")
          /\ UNCHANGED <<mon, monitors>>
  /\ UNCHANGED <<impl, allocVars, sideVars, closed, closeMutex, inDestroy, winsize, lastSet,
                 osWaits, cmdErr, cmdDone, callerVars, ctxVars>>

\* start (unix): exec.Cmd.Start with the tty as stdio; the tty is closed by
\* the deferred call on every path, the pty when Start failed.
unixStart(o) ==
  /\ impl = "unix" /\ api = "sized"
  /\ o \in {"fail", "ok"}
  /\ IF o = "ok"
     THEN /\ api' = "started"
          /\ child' = "running"
          /\ files' = FileClose(files, "pts")
          /\ UNCHANGED failStage
     ELSE /\ api' = "failed"
          /\ failStage' = "start"
          /\ files' = FileClose(FileClose(files, "ptmx"), "pts")
          /\ UNCHANGED child
  /\ UNCHANGED <<impl, allocVars, sideVars, console, closed, closeMutex, platformVars, exitKind, mon,
                 monitors, osWaits, cmdErr, cmdDone, callerVars, ctxVars>>

\* ---------------------------------------------------- pseudo-console calls
\* closeConsoleNoLock / winPtyConsoleCloser test the handle against
\* windows.InvalidHandle before calling ClosePseudoConsole.
ConsoleToClose == console # "invalid"

\* The handle field after the call returned d: closeConsoleNoLock keeps the
\* handle when the call failed, winPtyConsoleCloser invalidates it always.
ConsoleAfterClose(d) ==
  IF impl = "legacy" \/ d = "ok" THEN "invalid" ELSE console

\* ClosePseudoConsole is a blocking call: it is issued ...
DestroyBegin ==
  /\ destroyCalls' = destroyCalls + 1
  /\ inDestroy' = inDestroy + 1
  /\ UNCHANGED <<hpc, destroyFailed, winsize, lastSet>>

\* ... and returns d later; the session and an attached child end with it.
DestroyEnd(d) ==
  /\ inDestroy' = inDestroy - 1
  /\ hpc' = IF d = "ok" THEN "dead" ELSE hpc
  /\ destroyFailed' = (destroyFailed \/ d = "fail")
  /\ child' = ChildAfterDestroy(child, d = "ok")
  /\ exitKind' = KindAfterDestroy(child, exitKind, d = "ok")
  /\ UNCHANGED <<destroyCalls, winsize, lastSet>>

\* ----------------------------------------------------------- child process
\* The child ends on its own, successfully or not.
ChildExit(k) ==
  /\ child = "running"
  /\ k \in {"ok", "fail"}
  /\ child' = "exited"
  /\ exitKind' = k
  /\ UNCHANGED <<impl, allocVars, sideVars, api, failStage, pairVars, platformVars, mon, monitors,
                 osWaits, cmdErr, cmdDone, callerVars, ctxVars>>

\* ----------------------------------------- monitor: waitInternal/waitProcess
\* The goroutine started by Start calls proc.Wait() ...
MonitorCallWait ==
  /\ mon = "spawned"
  /\ mon' = "waiting"
  /\ osWaits' = osWaits + 1
  /\ UNCHANGED <<impl, allocVars, sideVars, api, failStage, pairVars, platformVars, child, exitKind,
                 monitors, cmdErr, cmdDone, callerVars, ctxVars>>

\* The error the monitor stores for a result of proc.Wait().
WaitOutcome_ErrOnly(e, k) == IF e = "err" THEN "WaitErr" ELSE "nil"
WaitOutcome(e, k) ==
  IF e = "err" THEN "WaitErr" ELSE IF k = "ok" THEN "nil" ELSE "ExitErr"

\* ... which returns once the child has exited; e = "err" is a failing wait.
MonitorWaitReturn(e) ==
  /\ mon = "waiting"
  /\ child = "exited"
  /\ e \in {"ok", "err"}
  /\ cmdErr' = WaitOutcome(e, exitKind)
  /\ mon' = "teardown"
  /\ UNCHANGED <<impl, allocVars, sideVars, api, failStage, pairVars, platformVars, child, exitKind,
                 monitors, osWaits, cmdDone, callerVars, ctxVars>>

\* The monitor of the conpty variant takes closeMutex for its teardown; the
\* legacy waitProcess calls winPtyConsoleCloser without any lock.
MonitorLocks == impl = "conpty"

\* The error kept after the teardown (r is the teardown's result): the
\* command's error wins.
TeardownErr_Overwrites(err, r) == IF r = "fail" THEN "CloseErr" ELSE err
TeardownErr(err, r) == IF r = "fail" /\ err = "nil" THEN "CloseErr" ELSE err

\* First deferred function: lock, then closeConsoleNoLock /
\* winPtyConsoleCloser up to the call.
MonitorTeardownBegin ==
  /\ mon = "teardown"
  /\ MonitorLocks => closeMutex = "free"
  /\ IF ConsoleToClose /\ ~ProcMissing
     THEN /\ DestroyBegin
          /\ mon' = "destroying"
          /\ closeMutex' = IF MonitorLocks THEN "mon" ELSE closeMutex
          /\ UNCHANGED cmdErr
     ELSE /\ mon' = "signal"
          /\ cmdErr' = TeardownErr(cmdErr, IF ConsoleToClose THEN "fail" ELSE "ok")
          /\ UNCHANGED <<closeMutex, platformVars>>
  /\ UNCHANGED <<impl, allocVars, sideVars, api, failStage, files, console, closed, child, exitKind,
                 monitors, osWaits, cmdDone, callerVars, ctxVars>>

\* The call returns; the handle is invalidated, the error recorded, the
\* mutex released.
MonitorTeardownEnd(d) ==
  /\ mon = "destroying"
  /\ d \in {"ok", "fail"}
  /\ DestroyEnd(d)
  /\ console' = ConsoleAfterClose(d)
  /\ cmdErr' = TeardownErr(cmdErr, CloserResult(d))
  /\ closeMutex' = IF MonitorLocks THEN "free" ELSE closeMutex
  /\ mon' = "signal"
  /\ UNCHANGED <<impl, allocVars, sideVars, api, failStage, files, closed, monitors, osWaits,
                 cmdDone, callerVars, ctxVars>>

\* close(p.cmdDone) is deferred first, so it runs last: after the teardown.
SignalReady_BeforeTeardown == mon \in {"teardown", "signal"}
SignalReady == mon = "signal"

\* Last deferred function: close(p.cmdDone).
MonitorSignal ==
  /\ SignalReady
  /\ cmdDone' = TRUE
  /\ mon' = IF mon = "signal" THEN "done" ELSE mon
  /\ UNCHANGED <<impl, allocVars, sideVars, api, failStage, pairVars, platformVars, child, exitKind,
                 monitors, osWaits, cmdErr, callerVars, ctxVars>>

\* ------------------------------------------------------------ Process.Wait
\* winProc.Wait; the legacy windowsProcess is handed to no caller
\* (cmd.Process is the *os.Process).
WaitCall(w) ==
  /\ api = "started" /\ impl = "conpty"
  /\ waiter[w].pc = "idle"
  /\ calls < MaxCalls
  /\ \A v \in Waiters : v < w => waiter[v].pc # "idle"
  /\ waiter' = [waiter EXCEPT ![w] = [pc |-> "blocked", early |-> child = "running",
                                      res |-> "none"]]
  /\ calls' = calls + 1
  /\ UNCHANGED <<impl, allocVars, sideVars, api, failStage, pairVars, platformVars, procVars,
                 closer, closeOk, resizer, reader, osWaiter, ctxVars>>

\* <-p.cmdDone: a receive on the channel proceeds once it is closed.
WaitReady_NoReceive == TRUE
WaitReady == cmdDone

\* proc.Wait calls after a Wait of the process handle: it issues none.
OsWaitsAfterWait(n) == n

WaitReturn(w) ==
  /\ waiter[w].pc = "blocked"
  /\ WaitReady
  /\ waiter' = [waiter EXCEPT ![w].pc = "returned", ![w].res = cmdErr]
  /\ osWaits' = OsWaitsAfterWait(osWaits)
  /\ UNCHANGED <<impl, allocVars, sideVars, api, failStage, pairVars, platformVars, child, exitKind,
                 mon, monitors, cmdErr, cmdDone,
                 closer, calls, closeOk, resizer, reader, osWaiter, ctxVars>>

\* ----------------------------------------------------------- killOnContext
CtxCancel ==
  /\ watcher # "none"
  /\ ~ctxDone
  /\ calls < MaxCalls
  /\ ctxDone' = TRUE
  /\ ctxAt' = IF cmdDone THEN "signalled"
              ELSE IF child = "exited" THEN "exited" ELSE "running"
  /\ calls' = calls + 1
  /\ UNCHANGED <<impl, allocVars, sideVars, api, failStage, pairVars, platformVars, procVars,
                 closer, closeOk, resizer, waiter, reader, osWaiter, watcher>>

\* select, case <-p.cmdDone: return
WatcherDone ==
  /\ watcher = "select"
  /\ cmdDone
  /\ watcher' = "returned"
  /\ UNCHANGED <<impl, allocVars, sideVars, api, failStage, pairVars, platformVars, procVars,
                 callerVars, ctxDone, ctxAt>>

\* (a watcher that would also give up the console handle)
WatcherKill_DropsConsole ==
  /\ watcher = "select"
  /\ ctxDone
  /\ watcher' = "killed"
  /\ console' = "invalid"
  /\ child' = IF child = "running" THEN "exited" ELSE child
  /\ exitKind' = IF child = "running" THEN "killed" ELSE exitKind
  /\ UNCHANGED <<impl, allocVars, sideVars, api, failStage, files, closed, closeMutex, platformVars,
                 mon, monitors, osWaits, cmdErr, cmdDone, callerVars, ctxDone,
                 ctxAt>>

\* select, case <-ctx.Done(): p.Kill(); killing an exited process changes
\* nothing.
WatcherKill ==
  /\ watcher = "select"
  /\ ctxDone
  /\ watcher' = "killed"
  /\ child' = IF child = "running" THEN "exited" ELSE child
  /\ exitKind' = IF child = "running" THEN "killed" ELSE exitKind
  /\ UNCHANGED <<impl, allocVars, sideVars, api, failStage, pairVars, platformVars, mon, monitors,
                 osWaits, cmdErr, cmdDone, callerVars, ctxDone, ctxAt>>

\* winProc.Kill / os.Process.Kill called on cmd.Process by the caller.
Kill ==
  /\ api = "started"
  /\ child \in {"running", "exited"}
  /\ calls < MaxCalls
  /\ calls' = calls + 1
  /\ child' = IF child = "running" THEN "exited" ELSE child
  /\ exitKind' = IF child = "running" THEN "killed" ELSE exitKind
  /\ UNCHANGED <<impl, allocVars, sideVars, api, failStage, pairVars, platformVars, mon, monitors,
                 osWaits, cmdErr, cmdDone, closer, closeOk, resizer, waiter,
                 reader, osWaiter, ctxVars>>

\* cmd.Process.Wait() of the caller where cmd.Process is the *os.Process
\* itself (legacy start stores it; on unix Process is os.Process): the call
\* issues the platform's wait on the process ...
ProcessWaitCall ==
  /\ impl \in {"legacy", "unix"}
  /\ api = "started"
  /\ osWaiter = "none"
  /\ calls < MaxCalls
  /\ osWaiter' = "blocked"
  /\ osWaits' = osWaits + 1
  /\ calls' = calls + 1
  /\ UNCHANGED <<impl, allocVars, sideVars, api, failStage, pairVars, platformVars, child, exitKind,
                 mon, monitors, cmdErr, cmdDone, closer, closeOk, resizer,
                 waiter, reader, ctxVars>>

\* ... and returns once the child has exited.
ProcessWaitReturn ==
  /\ osWaiter = "blocked"
  /\ child = "exited"
  /\ osWaiter' = "returned"
  /\ UNCHANGED <<impl, allocVars, sideVars, api, failStage, pairVars, platformVars, procVars,
                 closer, calls, closeOk, resizer, waiter, reader, ctxVars>>

\* ------------------------------------------------- reading the master side
\* A read of the output pipe ends with end-of-stream only when no write end
\* of that pipe is open: the parent's consolew, and the session's own
\* handle when the session was created on consolew.
OutputWriterOpen ==
  files["consolew"] = "open" \/ (hpc = "live" /\ wiring.out = "consolew")

ReadCall ==
  /\ api \in {"opened", "started"} /\ impl # "unix"
  /\ reader = "idle"
  /\ calls < MaxCalls
  /\ reader' = "reading"
  /\ calls' = calls + 1
  /\ UNCHANGED <<impl, allocVars, sideVars, api, failStage, pairVars, platformVars, procVars,
                 closer, closeOk, resizer, waiter, osWaiter, ctxVars>>

ReadReturn ==
  /\ reader = "reading"
  /\ \/ /\ files["pr"] = "closed"
        /\ reader' = "err"
     \/ /\ files["pr"] = "open"
        /\ ~OutputWriterOpen
        /\ reader' = "eof"
  /\ UNCHANGED <<impl, allocVars, sideVars, api, failStage, pairVars, platformVars, procVars,
                 closer, calls, closeOk, resizer, waiter, osWaiter, ctxVars>>

\* ------------------------------------------------------------------ Close
\* The Close methods a caller task can be in:
\*   "master"  Close of the pty endpoint: conFile.Close with master = true
\*             (conpty), winPtyCloser (legacy)
\*   "slave"   Close of the tty endpoint returned by Open: conFile.Close
\*             with master = false (conpty), winTtyCloser (legacy)
\*   "conPty"  conPty.Close of the conpty variant (under closeMutex)
CloseMethods ==
  (IF impl \in {"conpty", "legacy"} THEN {"master"} ELSE {}) \cup
  (IF impl \in {"conpty", "legacy"} /\ api = "opened" THEN {"slave"} ELSE {}) \cup
  (IF impl = "conpty" THEN {"conPty"} ELSE {})

\* (history) a Close of the master endpoint, neither of its files closed
\* yet, called after a Wait of the process has returned
CloseAfterWait(m) ==
  /\ m = "master"
  /\ \E w \in Waiters : waiter[w].pc = "returned"
  /\ files["pr"] = "open" /\ files["pw"] = "open"

CloseCall(c, m) ==
  /\ api \in {"opened", "started"}
  /\ closer[c].pc = "idle"
  /\ calls < MaxCalls
  /\ c = "c2" => (closer["c1"].pc # "idle" \/ closer["c1"].returned)
  /\ m \in CloseMethods
  /\ closer' = [closer EXCEPT ![c] =
                  [pc |-> IF m = "conPty" THEN "lock" ELSE "r",
                   method |-> m, err |-> {}, returned |-> FALSE,
                   afterWait |-> CloseAfterWait(m)]]
  /\ calls' = calls + 1
  /\ UNCHANGED <<impl, allocVars, sideVars, api, failStage, pairVars, platformVars, procVars,
                 closeOk, resizer, waiter, reader, osWaiter, ctxVars>>

\* The call returns err to its caller.
Returned(c, err) ==
  [closer EXCEPT ![c] = [pc |-> "idle", method |-> closer[c].method,
                         err |-> err, returned |-> TRUE,
                         afterWait |-> closer[c].afterWait]]
CloseOkAfter(c, err) == closeOk \/ (closer[c].method = "master" /\ err = {})

\* The two files of an endpoint: master (pr, pw), slave (consoler, consolew).
EndR_Master(m) == "pr"
EndR(m) == IF m = "master" THEN "pr" ELSE "consoler"
EndW(m) == IF m = "master" THEN "pw" ELSE "consolew"

\* Which file-close errors reach the result: conFile.Close joins both,
\* winPtyCloser drops both, winTtyCloser drops the reader's.
KeepsRErr(m) == impl = "conpty"
KeepsWErr(m) == impl = "conpty" \/ m = "slave"

\* p.r.Close()
CloseFileR(c) ==
  /\ closer[c].pc = "r"
  /\ LET m == closer[c].method
         e == IF KeepsRErr(m) THEN FileCloseErr(files, EndR(m)) ELSE {} IN
       /\ files' = FileClose(files, EndR(m))
       /\ closer' = [closer EXCEPT ![c].pc = "w", ![c].err = @ \cup e]
  /\ UNCHANGED <<impl, allocVars, sideVars, api, failStage, console, closed, closeMutex,
                 platformVars, procVars, calls, closeOk, resizer, waiter,
                 reader, osWaiter, ctxVars>>

\* p.w.Close(); the slave endpoint returns here
CloseFileW(c) ==
  /\ closer[c].pc = "w"
  /\ LET m == closer[c].method
         e == IF KeepsWErr(m) THEN FileCloseErr(files, EndW(m)) ELSE {}
         err == closer[c].err \cup e IN
       /\ files' = FileClose(files, EndW(m))
       /\ IF m = "master"
          THEN /\ closer' = [closer EXCEPT ![c].pc = "console", ![c].err = err]
               /\ UNCHANGED closeOk
          ELSE /\ closer' = Returned(c, err)
               /\ closeOk' = CloseOkAfter(c, err)
  /\ UNCHANGED <<impl, allocVars, sideVars, api, failStage, console, closed, closeMutex,
                 platformVars, procVars, calls, resizer, waiter,
                 reader, osWaiter, ctxVars>>

\* The master endpoint's Close takes no lock before closeConsoleNoLock /
\* winPtyConsoleCloser.
MasterCloseLocks == FALSE

\* closeConsoleNoLock up to the ClosePseudoConsole call
CloseConsoleBegin(c) ==
  /\ closer[c].pc = "console"
  /\ MasterCloseLocks => closeMutex = "free"
  /\ IF ConsoleToClose /\ ~ProcMissing
     THEN /\ DestroyBegin
          /\ closer' = [closer EXCEPT ![c].pc = "destroying"]
          /\ closeMutex' = IF MasterCloseLocks THEN c ELSE closeMutex
          /\ UNCHANGED closeOk
     ELSE /\ LET err == closer[c].err \cup
                         (IF ConsoleToClose THEN {"FindErr"} ELSE {}) IN
               /\ closer' = Returned(c, err)
               /\ closeOk' = CloseOkAfter(c, err)
          /\ UNCHANGED <<closeMutex, platformVars>>
  /\ UNCHANGED <<impl, allocVars, sideVars, api, failStage, files, console, closed, procVars,
                 calls, resizer, waiter, reader, osWaiter, ctxVars>>

\* the call returns d; the handle is invalidated and Close returns
CloseConsoleEnd(c, d) ==
  /\ closer[c].pc = "destroying"
  /\ closer[c].method = "master"
  /\ d \in {"ok", "fail"}
  /\ DestroyEnd(d)
  /\ console' = ConsoleAfterClose(d)
  /\ closeMutex' = IF MasterCloseLocks THEN "free" ELSE closeMutex
  /\ LET err == closer[c].err \cup
                (IF CloserResult(d) = "fail" THEN {"DestroyErr"} ELSE {}) IN
       /\ closer' = Returned(c, err)
       /\ closeOk' = CloseOkAfter(c, err)
  /\ UNCHANGED <<impl, allocVars, sideVars, api, failStage, files, closed, mon, monitors, osWaits,
                 cmdErr, cmdDone, calls, resizer, waiter, reader, osWaiter, ctxVars>>

\* conPty.Close: lock, the closed test, closeConsoleNoLock up to the call
ConPtyCloseLock(c) ==
  /\ closer[c].pc = "lock"
  /\ closeMutex = "free"
  /\ IF closed
     THEN /\ closer' = Returned(c, {})
          /\ UNCHANGED <<closeMutex, closed, platformVars>>
     ELSE /\ closeMutex' = c
          /\ IF ConsoleToClose
             THEN /\ DestroyBegin
                  /\ closer' = [closer EXCEPT ![c].pc = "destroying"]
                  /\ UNCHANGED closed
             ELSE /\ closed' = TRUE
                  /\ closer' = [closer EXCEPT ![c].pc = "p_pw"]
                  /\ UNCHANGED platformVars
  /\ UNCHANGED <<impl, allocVars, sideVars, api, failStage, files, console, procVars, calls,
                 closeOk, resizer, waiter, reader, osWaiter, ctxVars>>

\* conPty.Close goes on to mark the pair closed only when
\* closeConsoleNoLock returned nil.
conPtyCloseMarks_Always(d) == TRUE
conPtyCloseMarks(d) == d = "ok"

\* the call returns: on failure Close returns the error and changes nothing,
\* else it marks the pair closed and goes on to the pipes
ConPtyCloseEnd(c, d) ==
  /\ closer[c].pc = "destroying"
  /\ closer[c].method = "conPty"
  /\ d \in {"ok", "fail"}
  /\ DestroyEnd(d)
  /\ IF conPtyCloseMarks(d)
     THEN /\ console' = ConsoleAfterClose(d)
          /\ closed' = TRUE
          /\ closer' = [closer EXCEPT ![c].pc = "p_pw"]
          /\ UNCHANGED closeMutex
     ELSE /\ closer' = Returned(c, {"DestroyErr"})
          /\ closeMutex' = "free"
          /\ UNCHANGED <<console, closed>>
  /\ UNCHANGED <<impl, allocVars, sideVars, api, failStage, files, mon, monitors, osWaits, cmdErr,
                 cmdDone, calls, closeOk, resizer, waiter, reader, osWaiter, ctxVars>>

\* the order in which conPty.Close closes the pipe ends
PipeOrder == <<"pw", "consoler", "consolew", "pr">>
PipeStep(pc) == CASE pc = "p_pw" -> 1 [] pc = "p_consoler" -> 2
                  [] pc = "p_consolew" -> 3 [] OTHER -> 4
PipePc(i) == <<"p_pw", "p_consoler", "p_consolew", "p_pr">>[i]

ConPtyClosePipe(c) ==
  /\ closer[c].pc \in {"p_pw", "p_consoler", "p_consolew", "p_pr"}
  /\ LET i == PipeStep(closer[c].pc) IN
       /\ files' = FileClose(files, PipeOrder[i])
       /\ IF i < 4
          THEN /\ closer' = [closer EXCEPT ![c].pc = PipePc(i + 1)]
               /\ UNCHANGED closeMutex
          ELSE /\ closer' = Returned(c, {})
               /\ closeMutex' = "free"
  /\ UNCHANGED <<impl, allocVars, sideVars, api, failStage, console, closed, platformVars, procVars,
                 calls, closeOk, resizer, waiter, reader, osWaiter, ctxVars>>

\* --------------------------------------------------- Setsize / GetsizeFull
ResizeCall(op) ==
  /\ impl = "conpty"
  /\ api \in {"opened", "started"}
  /\ resizer.pc = "idle"
  /\ calls < MaxCalls
  /\ op \in {"Setsize", "GetsizeFull"}
  /\ resizer' = [pc |-> "lock", op |-> op, afterClose |-> closeOk, res |-> "none",
                  got |-> NoSize]
  /\ calls' = calls + 1
  /\ UNCHANGED <<impl, allocVars, sideVars, api, failStage, pairVars, platformVars, procVars,
                 closer, closeOk, waiter, reader, osWaiter, ctxVars>>

\* the test made after the lock is taken
SizeGuardClosed == closed \/ console = "invalid"

ResizeLock ==
  /\ impl = "conpty"
  /\ resizer.pc = "lock"
  /\ closeMutex = "free"
  /\ IF SizeGuardClosed
     THEN /\ resizer' = [resizer EXCEPT !.pc = "idle", !.res = "ErrClosed"]
          /\ UNCHANGED closeMutex
     ELSE /\ resizer' = [resizer EXCEPT !.pc = "call"]
          /\ closeMutex' = "rz"
  /\ UNCHANGED <<impl, allocVars, sideVars, api, failStage, files, console, closed, platformVars,
                 procVars, closer, calls, closeOk, waiter, reader, osWaiter, ctxVars>>

\* defer p.closeMutex.Unlock(): the mutex after setsize / getsizeFull
\* returned, whatever the result o of the platform call.
MutexAfterResize(o) == "free"

\* ResizePseudoConsole(sz) / GetConsoleScreenBufferInfo returns o; unlock
ResizeReturn(o, sz) ==
  /\ impl = "conpty"
  /\ resizer.pc = "call"
  /\ o \in {"ok", "fail"}
  /\ sz \in (IF resizer.op = "Setsize" THEN Sizes ELSE {NoSize})
  /\ closeMutex' = MutexAfterResize(o)
  /\ IF o = "ok"
     THEN /\ winsize' = SetsizeWindow(sz, winsize)
          /\ lastSet' = IF resizer.op = "Setsize" THEN sz ELSE lastSet
          /\ resizer' = [resizer EXCEPT !.pc = "idle", !.res = "nil",
                            !.got = IF resizer.op = "Setsize" THEN NoSize
                                    ELSE WinsizeOf(ScreenBufferInfo(winsize))]
     ELSE /\ resizer' = [resizer EXCEPT !.pc = "idle", !.res = "err"]
          /\ UNCHANGED <<winsize, lastSet>>
  /\ UNCHANGED <<impl, allocVars, sideVars, api, failStage, files, console, closed, hpc, inDestroy,
                 destroyCalls, destroyFailed, procVars, closer, calls,
                 closeOk, waiter, reader, osWaiter, ctxVars>>

\* ----------------------------------- Setsize / GetsizeFull, legacy variant
\* Setsize(t, ws) / GetsizeFull(t) on the *conPty that the legacy open and
\* start return.  The test made after mtx.RLock() compares the handle with
\* 0; the closer leaves windows.InvalidHandle.
LegacyGuardClosed == console = "zero"

\* Up to the platform call: the type assertion, mtx.RLock() (a read lock:
\* it waits for no other reader, and nothing in the sources takes the write
\* lock) and the handle test.
LegacyResizeCall(op) ==
  /\ impl = "legacy"
  /\ api \in {"opened", "started"}
  /\ resizer.pc = "idle"
  /\ calls < MaxCalls
  /\ op \in {"Setsize", "GetsizeFull"}
  /\ resizer' = [pc |-> IF LegacyGuardClosed THEN "idle" ELSE "call",
                  op |-> op, afterClose |-> closeOk,
                  res |-> IF LegacyGuardClosed THEN "ErrClosed" ELSE "none",
                  got |-> NoSize]
  /\ calls' = calls + 1
  /\ UNCHANGED <<impl, allocVars, sideVars, api, failStage, pairVars, platformVars, procVars,
                 closer, closeOk, waiter, reader, osWaiter, ctxVars>>

\* windows.ResizePseudoConsole(handle, coord) /
\* windows.GetConsoleScreenBufferInfo(t.Fd(), &info) returns o
LegacyResizeReturn(o, sz) ==
  /\ impl = "legacy"
  /\ resizer.pc = "call"
  /\ o \in {"ok", "fail"}
  /\ sz \in (IF resizer.op = "Setsize" THEN Sizes ELSE {NoSize})
  /\ IF o = "ok"
     THEN /\ winsize' = LegacySetsizeWindow(sz, winsize)
          /\ lastSet' = IF resizer.op = "Setsize" THEN sz ELSE lastSet
          /\ resizer' = [resizer EXCEPT !.pc = "idle", !.res = "nil",
                            !.got = IF resizer.op = "Setsize" THEN NoSize
                                    ELSE WinsizeOf(ScreenBufferInfo(winsize))]
     ELSE /\ resizer' = [resizer EXCEPT !.pc = "idle", !.res = "err"]
          /\ UNCHANGED <<winsize, lastSet>>
  /\ UNCHANGED <<impl, allocVars, sideVars, api, failStage, pairVars, hpc, inDestroy,
                 destroyCalls, destroyFailed, procVars, closer, calls,
                 closeOk, waiter, reader, osWaiter, ctxVars>>

\* ----------------------------- Setsize / GetsizeFull, device-backed variant
\* One step under the pair's guard: the closed error unless the master
\* descriptor is open, else the terminal's size field is written or read
\* (o is the result of the platform call).
UnixResize(op, o, sz) ==
  /\ impl = "unix"
  /\ api \in {"opened", "started"}
  /\ resizer.pc = "idle"
  /\ calls < MaxCalls
  /\ op \in {"Setsize", "GetsizeFull"}
  /\ o \in {"ok", "fail"}
  /\ sz \in (IF op = "Setsize" THEN Sizes ELSE {NoSize})
  /\ LET res == IF files["ptmx"] # "open" THEN "ErrClosed"
                ELSE IF o = "fail" THEN "err" ELSE "nil" IN
       /\ resizer' = [pc |-> "idle", op |-> op, afterClose |-> closeOk,
                       res |-> res,
                       got |-> IF res = "nil" /\ op = "GetsizeFull"
                               THEN winsize ELSE NoSize]
       /\ winsize' = IF res = "nil" THEN UnixSetsizeWindow(sz, winsize)
                      ELSE winsize
       /\ lastSet' = IF res = "nil" /\ op = "Setsize" THEN sz ELSE lastSet
  /\ calls' = calls + 1
  /\ UNCHANGED <<impl, allocVars, sideVars, api, failStage, pairVars, hpc, inDestroy,
                 destroyCalls, destroyFailed, procVars, closer,
                 closeOk, waiter, reader, osWaiter, ctxVars>>

\* ------------------------------------------------------------ specification
Next ==
  \/ \E o \in OpenPtyOutcomes \cup LegacyOpenOutcomes \cup UnixOpenOutcomes : Open(o)
  \/ \E o \in OpenPtyOutcomes \cup LegacyOpenOutcomes \cup UnixOpenOutcomes : StartOpen(o)
  \/ \E sz \in Sizes \cup {NoSize}, o \in {"ok", "fail"} : StartWithAttrsSetsize(sz, o)
  \/ \E o \in StartOutcomes, ctx \in StartCtx : conPtyStart(o, ctx)
  \/ \E sz \in Sizes \cup {NoSize}, o \in {"ok", "fail"} : startOpts(sz, o)
  \/ \E o \in StartOutcomes, d \in {"ok", "fail"} : legacyStart(o, d)
  \/ \E o \in {"ok", "fail"} : unixStart(o)
  \/ \E k \in {"ok", "fail"} : ChildExit(k)
  \/ MonitorCallWait
  \/ \E e \in {"ok", "err"} : MonitorWaitReturn(e)
  \/ MonitorTeardownBegin
  \/ \E d \in {"ok", "fail"} : MonitorTeardownEnd(d)
  \/ MonitorSignal
  \/ \E w \in Waiters : WaitCall(w)
  \/ \E w \in Waiters : WaitReturn(w)
  \/ CtxCancel
  \/ WatcherDone
  \/ WatcherKill
  \/ Kill
  \/ ProcessWaitCall
  \/ ProcessWaitReturn
  \/ ReadCall
  \/ ReadReturn
  \/ \E c \in Closers, m \in {"master", "slave", "conPty"} : CloseCall(c, m)
  \/ \E c \in Closers : CloseFileR(c)
  \/ \E c \in Closers : CloseFileW(c)
  \/ \E c \in Closers : CloseConsoleBegin(c)
  \/ \E c \in Closers, d \in {"ok", "fail"} : CloseConsoleEnd(c, d)
  \/ \E c \in Closers : ConPtyCloseLock(c)
  \/ \E c \in Closers, d \in {"ok", "fail"} : ConPtyCloseEnd(c, d)
  \/ \E c \in Closers : ConPtyClosePipe(c)
  \/ \E op \in {"Setsize", "GetsizeFull"} : ResizeCall(op)
  \/ ResizeLock
  \/ \E o \in {"ok", "fail"}, sz \in Sizes \cup {NoSize} : ResizeReturn(o, sz)
  \/ \E op \in {"Setsize", "GetsizeFull"} : LegacyResizeCall(op)
  \/ \E o \in {"ok", "fail"}, sz \in Sizes \cup {NoSize} : LegacyResizeReturn(o, sz)
  \/ \E op \in {"Setsize", "GetsizeFull"}, o \in {"ok", "fail"},
        sz \in Sizes \cup {NoSize} : UnixResize(op, o, sz)

Spec == Init /\ [][Next]_vars

\* ---------------------------------------------------------------- properties
OnlyMasterCloses == \A c \in Closers : closer[c].method \in {"none", "master"}
NoCloseCalled == \A c \in Closers : closer[c].method = "none"
\* Every call made so far was a Close of kind m, each by another caller.
OnlyCalls(m) == calls = Cardinality({c \in Closers : closer[c].method = m})
NoOpenResource == (\A f \in Res : files[f] # "open") /\ hpc # "live"

\* C1: on a pair from Open, with no platform call failing, Close calls on the
\* master endpoint (one after the other or from two tasks) issue at most one
\* ClosePseudoConsole call and each of them returns nil.
C1_CloseIdempotent ==
  (api = "opened" /\ ~destroyFailed /\ OnlyMasterCloses)
    => /\ destroyCalls <= 1
       /\ \A c \in Closers : closer[c].returned => closer[c].err = {}

\* C2: with a launched process and a single caller closing the master
\* endpoint, the Close and the monitor's teardown together issue at most one
\* ClosePseudoConsole call, in every interleaving.
C2_OneDestroyPerPair ==
  (api = "started" /\ ~destroyFailed /\ OnlyMasterCloses
     /\ closer["c2"].method = "none")
    => destroyCalls <= 1

\* C3: all observers whose Wait has returned hold the same outcome, whether
\* they called before or after the exit.
C3_WaitConsistent ==
  \A v, w \in Waiters :
    (waiter[v].pc = "returned" /\ waiter[w].pc = "returned")
      => waiter[v].res = waiter[w].res

C3_Witness ==
  \E v, w \in Waiters :
    /\ waiter[v].pc = "returned" /\ waiter[w].pc = "returned"
    /\ waiter[v].early /\ ~waiter[w].early
    /\ waiter[v].res # "nil"

\* C4: every started process, whatever the variant, has exactly one
\* monitor, and the platform's wait on the process is issued once, by the
\* monitor: the count is 0 until the monitor calls it and 1 from then on,
\* however many waits the callers make.
C4_SingleOsWait ==
  /\ monitors <= 1
  /\ api = "started" => monitors = 1
  /\ osWaits = (IF mon \in {"none", "spawned"} THEN 0 ELSE 1)

\* C5: a Setsize or GetsizeFull that starts after a Close of the master
\* endpoint returned nil never reaches the platform call and returns
\* ErrClosed (whatever the variant of the pair).
C5_ResizeAfterClose ==
  resizer.afterClose
    => /\ resizer.pc # "call"
       /\ resizer.pc = "idle" => resizer.res = "ErrClosed"

\* C6: while a resize or size-query call is in progress the session is alive
\* and no ClosePseudoConsole call is in progress.
C6_NoResizeOnDestroyed ==
  resizer.pc = "call" => (hpc = "live" /\ inDestroy = 0)

\* C7: when Start has failed after the allocation (and no destroy call
\* failed), no pipe end, descriptor or session of the attempt is left open.
C7_StartFailureReleases ==
  (api = "failed" /\ failStage \in {"opt", "start"} /\ ~destroyFailed)
    => NoOpenResource

\* C8: when the allocation has failed, nothing it opened is left open.
C8_AllocFailureReleases ==
  (api = "failed" /\ failStage = "alloc") => NoOpenResource

\* C9: after a successful Start the parent holds no open slave-side end.
C9_NoSlaveEndAfterStart ==
  api = "started" => \A f \in SlaveEnds : files[f] # "open"

\* C10: once the child has exited on its own, the monitor is done without an
\* error and Close was never called, a pending read of the master endpoint
\* can complete with end-of-stream: no writer of the output pipe is open.
C10_EofAfterMonitor ==
  (mon = "done" /\ exitKind = "ok" /\ cmdErr = "nil" /\ ~destroyFailed
     /\ NoCloseCalled /\ reader = "reading")
    => (files["pr"] = "open" /\ ~OutputWriterOpen)

\* C11: the monitor finishes its teardown before it closes cmdDone: when the
\* signal has fired or a Wait has returned, the monitor is past its destroy
\* step, which left the handle invalid or its failure recorded in cmdErr;
\* and the monitor's destroy call runs with the pair's mutex held, whatever
\* the variant.
C11_TeardownBeforeSignal ==
  /\ cmdDone => mon = "done"
  /\ (\E w \in Waiters : waiter[w].pc = "returned")
       => (mon = "done" /\ (console = "invalid" \/ cmdErr = "CloseErr"))
  /\ mon = "destroying" => closeMutex = "mon"

\* C12: with Close called on the master endpoint only and no destroy call
\* failing, no second ClosePseudoConsole call is issued while one is in
\* flight, and no Close has returned while a destroy call is in flight.
C12_CloseWaitsForTeardown ==
  (OnlyMasterCloses /\ ~destroyFailed) =>
    /\ inDestroy <= 1
    /\ \A c \in Closers : closer[c].returned => inDestroy = 0

\* C13: closed implies the handle is invalid, and no step resets closed,
\* revalidates an invalid handle or revives a destroyed session.
C13_LifecycleMonotonic ==
  /\ [](closed => console = "invalid")
  /\ [][/\ closed => closed'
        /\ console = "invalid" => console' = "invalid"
        /\ hpc = "dead" => hpc' = "dead"]_vars

C13_Witness ==
  /\ closed /\ console = "invalid"
  /\ \E c \in Closers : closer[c].method = "conPty" /\ closer[c].returned

\* C14: with a single task closing the master endpoint, the parent's read
\* end of the output pipe is open while a ClosePseudoConsole call is in
\* progress.
C14_ReaderOpenDuringDestroy ==
  (OnlyMasterCloses /\ closer["c2"].method = "none" /\ inDestroy > 0)
    => files["pr"] = "open"

\* C15: on an allocated pair of the conpty variant no read end is closed
\* while the write end of the same pipe is open in the parent.
C15_WriterClosedFirst ==
  (impl = "conpty" /\ api \in {"opened", "started"})
    => /\ files["consoler"] = "closed" => files["pw"] = "closed"
       /\ files["pr"] = "closed" => files["consolew"] = "closed"

\* C16: the step in which the watcher answers the cancellation changes
\* neither the pipe ends, the handle, the closed flag, the mutex nor the
\* session, and issues no destroy call.
C16_WatcherOnlyKills ==
  [][(watcher = "select" /\ watcher' = "killed")
       => UNCHANGED <<files, console, closed, closeMutex, hpc, inDestroy,
                      destroyCalls, api>>]_vars

C16_Witness ==
  /\ watcher = "killed" /\ exitKind = "killed"
  /\ console = "valid" /\ hpc = "live" /\ destroyCalls = 0
  /\ \A f \in PipeEnds : files[f] = "open"

\* C17: when the context is cancelled after cmdDone was closed, the watcher
\* does not call Kill.
C17_LateCancelNoKill ==
  ctxAt = "signalled" => watcher # "killed"

C19_SizeBeforeChild ==
  /\ (api \in {"init", "allocated"} \/ failStage \in {"alloc", "opt"})
       => (child = "none" /\ monitors = 0 /\ mon = "none")
  /\ (child # "none" /\ calls = 0 /\ lastSet # NoSize) => winsize = lastSet

C19_Witness ==
  /\ child = "running" /\ calls = 0
  /\ lastSet = <<24, 80>> /\ winsize = <<24, 80>>

\* C20: a GetsizeFull that returned nil after a Setsize that returned nil
\* reports the rows and columns of the most recent such Setsize.
C20_GetsizeAfterSetsize ==
  (resizer.op = "GetsizeFull" /\ resizer.pc = "idle" /\ resizer.res = "nil"
     /\ lastSet # NoSize)
    => resizer.got = lastSet

C20_Witness ==
  /\ resizer.op = "GetsizeFull" /\ resizer.pc = "idle" /\ resizer.res = "nil"
  /\ api = "opened"
  /\ lastSet = <<40, 120>> /\ resizer.got = <<40, 120>>

\* ------------------------------------------------------ environment merge
\* An entry of cmd.Env: "key=val" (eq), or a string without "=" (key holds
\* the string).
MaxEnv == 3
EnvKeys == {"A", "a", "B", "SYSTEMROOT", "SystemRoot"}
EnvVals == {"1", "2", "3"}
EnvEntries ==
  [eq : {TRUE}, key : EnvKeys, val : EnvVals]
    \cup [eq : {FALSE}, key : {"A", "SYSTEMROOT"}, val : {""}]
EnvLists == UNION {[1..n -> EnvEntries] : n \in 0..MaxEnv}

\* os.Getenv("SYSTEMROOT") in the parent.
HostSystemRoot == "C:\\WINDOWS"

\* strings.ToLower and strings.EqualFold on the keys of EnvKeys.
ToLower(k) ==
  CASE k = "A" -> "a"
    [] k = "B" -> "b"
    [] k \in {"SYSTEMROOT", "SystemRoot"} -> "systemroot"
    [] OTHER -> k
EqualFold(a, b) == ToLower(a) = ToLower(b)

\* The loop of dedupEnvCase from entry i on: out is the list built so far,
\* saw maps each key seen to its index in out.
RECURSIVE dedupFrom(_, _, _, _, _)
dedupFrom(caseInsensitive, env, i, out, saw) ==
  IF i > Len(env) THEN out
  ELSE LET kv == env[i]
           k  == IF caseInsensitive THEN ToLower(kv.key) ELSE kv.key
       IN IF ~kv.eq
            THEN dedupFrom(caseInsensitive, env, i + 1, Append(out, kv), saw)
          ELSE IF k \in DOMAIN saw
            THEN dedupFrom(caseInsensitive, env, i + 1,
                           [out EXCEPT ![saw[k]] = kv], saw)
          ELSE dedupFrom(caseInsensitive, env, i + 1, Append(out, kv),
                         saw @@ (k :> Len(out) + 1))

dedupEnvCase_CaseSensitive(caseInsensitive, env) == dedupFrom(FALSE, env, 1, <<>>, <<>>)
dedupEnvCase(caseInsensitive, env) == dedupFrom(caseInsensitive, env, 1, <<>>, <<>>)

addCriticalEnv(env) ==
  IF \E i \in DOMAIN env : env[i].eq /\ EqualFold(env[i].key, "SYSTEMROOT")
    THEN env
    ELSE Append(env, [eq |-> TRUE, key |-> "SYSTEMROOT", val |-> HostSystemRoot])

\* conPty.start builds the child's environment block from cmd.Env.
ForwardEnv ==
  /\ envPc = "input"
  /\ envOut' = addCriticalEnv(dedupEnvCase(TRUE, envIn))
  /\ envPc' = "forwarded"
  /\ UNCHANGED <<lifeVars, ioVars, envIn>>

InitEnv ==
  /\ InitPair /\ impl = "conpty"
  /\ InitNoIO
  /\ envIn \in EnvLists /\ envOut = <<>> /\ envPc = "input"

NextEnv == ForwardEnv

SpecEnv == InitEnv /\ [][NextEnv]_vars

KeyedIdx(env) == {i \in DOMAIN env : env[i].eq}
LastOf(env, k) ==
  env[CHOOSE i \in KeyedIdx(env) :
        /\ ToLower(env[i].key) = k
        /\ \A j \in KeyedIdx(env) : ToLower(env[j].key) = k => j <= i]
EnvSample ==
  <<[eq |-> TRUE, key |-> "A", val |-> "1"],
    [eq |-> TRUE, key |-> "a", val |-> "2"],
    [eq |-> TRUE, key |-> "B", val |-> "3"]>>

\* C21: the forwarded list holds, for every key of the input compared
\* without case, exactly one entry, equal to the key's last occurrence in the
\* input; it holds exactly one entry for SYSTEMROOT, synthesized from the
\* parent's value when the input has none; it holds no other key; and
\* A=1, a=2, B=3 is forwarded as a=2, B=3 and the synthesized entry.
C21_EnvMerge ==
  envPc = "forwarded" =>
    LET keys == {ToLower(envIn[i].key) : i \in KeyedIdx(envIn)}
        outOf(k) == {j \in KeyedIdx(envOut) : ToLower(envOut[j].key) = k}
        synth == [eq |-> TRUE, key |-> "SYSTEMROOT", val |-> HostSystemRoot]
    IN /\ \A k \in keys :
            /\ Cardinality(outOf(k)) = 1
            /\ \A j \in outOf(k) : envOut[j] = LastOf(envIn, k)
       /\ Cardinality(outOf("systemroot")) = 1
       /\ "systemroot" \notin keys
            => \A j \in outOf("systemroot") : envOut[j] = synth
       /\ \A j \in KeyedIdx(envOut) :
            ToLower(envOut[j].key) \in keys \cup {"systemroot"}
       /\ envIn = EnvSample
            => envOut = <<EnvSample[2], EnvSample[3], synth>>

C21_Witness ==
  /\ envPc = "forwarded" /\ envIn = EnvSample
  /\ Len(envOut) = 3 /\ envOut[1].key = "a" /\ envOut[1].val = "2"
  /\ envOut[3].key = "SYSTEMROOT"

\* ------------------------------------------------------------ endpoint I/O
\* The input pipe is written through pw and read through consoler, the
\* output pipe is written through consolew and read through pr.  While the
\* session is alive the console host holds duplicates of the handles it was
\* created on.
MaxBytes == 2
Bytes == {"x", "y"}

PipeOf(f) == IF f \in {"pw", "consoler"} THEN "in" ELSE "out"
HasReader(p) ==
  IF p = "in"
    THEN files["consoler"] = "open"
         \/ (hpc = "live" /\ "consoler" \in {wiring.in, wiring.out})
    ELSE files["pr"] = "open"
HasWriter(p) ==
  IF p = "in"
    THEN files["pw"] = "open"
    ELSE OutputWriterOpen

\* The conPty an endpoint embeds: ptyf() sets it, ttyf() leaves it nil.
PairRef(e) == IF e = "master" THEN "conPty" ELSE "nil"

\* the process has stopped on a nil dereference
Crashed == epCall.res = "panic"

\* The task calling the endpoints makes one call at a time: it is inside
\* setsize / getsizeFull, past the guard, waiting for the platform call.
InPlatformCall == epCall.res = "pending"

\* conFile.Write: p.w.Write of one byte.
WriteEnd(e, b) ==
  /\ api = "opened" /\ impl \in {"conpty", "legacy"}
  /\ ~Crashed /\ ~InPlatformCall
  /\ Len(sent["master"]) + Len(sent["slave"]) < MaxBytes
  /\ LET f == EndW(e)
         res == IF files[f] # "open" THEN "ErrClosed"
                ELSE IF ~HasReader(PipeOf(f)) THEN "ErrPipe"
                ELSE "nil"
     IN /\ epCall' = [end |-> e, op |-> "Write", res |-> res]
        /\ sent' = IF res = "nil" THEN [sent EXCEPT ![e] = Append(@, b)] ELSE sent
        /\ inPipe' = IF res = "nil" /\ PipeOf(f) = "in" THEN Append(inPipe, b) ELSE inPipe
        /\ outPipe' = IF res = "nil" /\ PipeOf(f) = "out" THEN Append(outPipe, b) ELSE outPipe
  /\ UNCHANGED <<lifeVars, envVars, recv, conGot>>

\* conFile.Read: p.r.Read into a buffer of one byte; it blocks while the pipe
\* is empty and has a writer.
ReadEnd(e) ==
  /\ api = "opened" /\ impl \in {"conpty", "legacy"}
  /\ ~Crashed /\ ~InPlatformCall
  /\ LET f == EndR(e)
         q == IF PipeOf(f) = "in" THEN inPipe ELSE outPipe
         res == IF files[f] # "open" THEN "ErrClosed"
                ELSE IF q # <<>> THEN "nil"
                ELSE "EOF"
     IN /\ res = "EOF" => ~HasWriter(PipeOf(f))
        /\ epCall' = [end |-> e, op |-> "Read", res |-> res]
        /\ recv' = IF res = "nil" THEN [recv EXCEPT ![e] = Append(@, Head(q))] ELSE recv
        /\ inPipe' = IF res = "nil" /\ PipeOf(f) = "in" THEN Tail(inPipe) ELSE inPipe
        /\ outPipe' = IF res = "nil" /\ PipeOf(f) = "out" THEN Tail(outPipe) ELSE outPipe
  /\ UNCHANGED <<lifeVars, envVars, sent, conGot>>

\* The console host reads its input handle.
ConsoleTake ==
  /\ hpc = "live" /\ wiring.in = "consoler"
  /\ inPipe # <<>>
  /\ conGot' = Append(conGot, Head(inPipe))
  /\ inPipe' = Tail(inPipe)
  /\ UNCHANGED <<lifeVars, envVars, outPipe, sent, recv, epCall>>

\* conFile.Fd, Setsize(f, sz) and GetsizeFull(f) on an endpoint of the
\* conpty pair: each goes through the embedded conPty.  Fd returns the
\* handle; setsize / getsizeFull lock closeMutex, test the pair and, when it
\* is not closed, go on to the platform call with the mutex held.
EndpointOps == {"Fd", "Setsize", "GetsizeFull"}
EndpointCall(e, op) ==
  /\ api = "opened" /\ impl = "conpty"
  /\ ~Crashed /\ ~InPlatformCall
  /\ op \in EndpointOps
  /\ LET locks == PairRef(e) # "nil" /\ op # "Fd"
         res == IF PairRef(e) = "nil" THEN "panic"
                ELSE IF op = "Fd" THEN "value"
                ELSE IF SizeGuardClosed THEN "ErrClosed"
                ELSE "pending"
     IN /\ locks => closeMutex = "free"
        /\ epCall' = [end |-> e, op |-> op, res |-> res]
        /\ closeMutex' = IF res = "pending" THEN "rz" ELSE closeMutex
  /\ UNCHANGED <<impl, api, failStage, files, console, closed, platformVars,
                 procVars, callerVars, ctxVars, allocVars,
                 envVars, inPipe, outPipe, sent, recv, conGot>>

\* ResizePseudoConsole(sz) / GetConsoleScreenBufferInfo returns o, whatever
\* a Close has done to the pair in between (conFile.Close takes no lock);
\* the deferred Unlock.
EndpointReturn(sz, o) ==
  /\ InPlatformCall
  /\ sz \in (IF epCall.op = "Setsize" THEN Sizes ELSE {NoSize})
  /\ o \in {"ok", "fail"}
  /\ LET res == IF o = "fail" THEN "err"
                ELSE IF epCall.op = "Setsize" THEN "nil" ELSE "value"
         set == epCall.op = "Setsize" /\ res = "nil"
     IN /\ epCall' = [epCall EXCEPT !.res = res]
        /\ winsize' = IF set THEN SetsizeWindow(sz, winsize) ELSE winsize
        /\ lastSet' = IF set THEN sz ELSE lastSet
  /\ closeMutex' = MutexAfterResize(o)
  /\ UNCHANGED <<impl, api, failStage, files, console, closed, hpc, inDestroy,
                 destroyCalls, destroyFailed, procVars, callerVars, ctxVars,
                 allocVars, envVars, inPipe, outPipe, sent, recv, conGot>>

InitIO ==
  /\ InitPair /\ impl \in {"conpty", "legacy"}
  /\ InitNoEnv /\ InitNoIO

NextIO ==
  \/ \E o \in OpenPtyOutcomes \cup LegacyOpenOutcomes : Open(o)
  \/ \E c \in Closers, m \in {"master", "slave"} : CloseCall(c, m)
  \/ \E c \in Closers : CloseFileR(c)
  \/ \E c \in Closers : CloseFileW(c)
  \/ \E c \in Closers : CloseConsoleBegin(c)
  \/ \E c \in Closers, d \in {"ok", "fail"} : CloseConsoleEnd(c, d)
  \/ \E e \in Endpoints, b \in Bytes : WriteEnd(e, b)
  \/ \E e \in Endpoints : ReadEnd(e)
  \/ ConsoleTake
  \/ \E e \in Endpoints, op \in EndpointOps : EndpointCall(e, op)
  \/ \E sz \in Sizes \cup {NoSize}, o \in {"ok", "fail"} : EndpointReturn(sz, o)

SpecIO == InitIO /\ [][NextIO]_vars

\* C22: on a pair from Open the bytes read from one endpoint, followed by
\* those still in the pipe towards it, are the bytes written to the other
\* endpoint, in both directions; and while no Close was called no Read or
\* Write on an endpoint fails.
C22_RoundTrip ==
  /\ recv["master"] \o outPipe = sent["slave"]
  /\ recv["slave"] \o inPipe = sent["master"]
  /\ (api = "opened" /\ NoCloseCalled /\ epCall.op \in {"Read", "Write"})
       => epCall.res = "nil"

\* C30: no Fd, Setsize or GetsizeFull call on an endpoint from Open ends in
\* a nil dereference.
C30_EndpointCallsSafe == epCall.op \in EndpointOps => epCall.res # "panic"

\* ---------------------------------------------------------------- liveness
\* ClosePseudoConsole "may write a final frame to the output buffer, so
\* there must be a consumer to ensure we don't block here indefinitely":
\* a task is reading the master side of the pipe the session writes.
OutputConsumer ==
  /\ reader = "reading" /\ files["pr"] = "open"
  /\ wiring.out = "consolew"

\* Scheduling: a goroutine that can take its next step eventually takes it,
\* and ResizePseudoConsole, GetConsoleScreenBufferInfo and a wait on an
\* exited process return.  A ClosePseudoConsole call is only known to
\* return while its output has a consumer.  Nothing is assumed about the
\* child ending on its own, nor about the calls the caller makes.
Fairness ==
  /\ WF_vars(MonitorCallWait)
  /\ WF_vars(\E e \in {"ok", "err"} : MonitorWaitReturn(e))
  /\ WF_vars(MonitorTeardownBegin)
  /\ WF_vars(OutputConsumer /\ \E d \in {"ok", "fail"} : MonitorTeardownEnd(d))
  /\ WF_vars(MonitorSignal)
  /\ \A w \in Waiters : WF_vars(WaitReturn(w))
  /\ WF_vars(ProcessWaitReturn)
  /\ WF_vars(ReadReturn)
  /\ WF_vars(WatcherDone \/ WatcherKill)
  /\ \A c \in Closers :
       /\ WF_vars(CloseFileR(c) \/ CloseFileW(c) \/ CloseConsoleBegin(c))
       /\ WF_vars(OutputConsumer /\ \E d \in {"ok", "fail"} : CloseConsoleEnd(c, d))
       /\ WF_vars(ConPtyCloseLock(c))
       /\ WF_vars(OutputConsumer /\ \E d \in {"ok", "fail"} : ConPtyCloseEnd(c, d))
       /\ WF_vars(ConPtyClosePipe(c))
  /\ WF_vars(ResizeLock)
  /\ WF_vars(\E o \in {"ok", "fail"}, sz \in Sizes \cup {NoSize} : ResizeReturn(o, sz))
  /\ WF_vars(\E o \in {"ok", "fail"}, sz \in Sizes \cup {NoSize} :
               LegacyResizeReturn(o, sz))

\* Start of a command on a pipe-backed pair, its monitor and watcher, and
\* the callers of Wait, Kill, Read, Close, Setsize, GetsizeFull and cancel.
InitLive == Init /\ impl \in {"conpty", "legacy"}

NextLive ==
  \/ \E o \in OpenPtyOutcomes \cup LegacyOpenOutcomes : StartOpen(o)
  \/ \E sz \in Sizes \cup {NoSize}, o \in {"ok", "fail"} : StartWithAttrsSetsize(sz, o)
  \/ \E o \in StartOutcomes, ctx \in StartCtx : conPtyStart(o, ctx)
  \/ \E sz \in Sizes \cup {NoSize}, o \in {"ok", "fail"} : startOpts(sz, o)
  \/ \E o \in StartOutcomes, d \in {"ok", "fail"} : legacyStart(o, d)
  \/ \E k \in {"ok", "fail"} : ChildExit(k)
  \/ MonitorCallWait
  \/ \E e \in {"ok", "err"} : MonitorWaitReturn(e)
  \/ MonitorTeardownBegin
  \/ \E d \in {"ok", "fail"} : MonitorTeardownEnd(d)
  \/ MonitorSignal
  \/ \E w \in Waiters : WaitCall(w)
  \/ \E w \in Waiters : WaitReturn(w)
  \/ CtxCancel
  \/ WatcherDone
  \/ WatcherKill
  \/ Kill
  \/ ProcessWaitCall
  \/ ProcessWaitReturn
  \/ ReadCall
  \/ ReadReturn
  \/ \E c \in Closers, m \in {"master", "conPty"} : CloseCall(c, m)
  \/ \E c \in Closers : CloseFileR(c)
  \/ \E c \in Closers : CloseFileW(c)
  \/ \E c \in Closers : CloseConsoleBegin(c)
  \/ \E c \in Closers, d \in {"ok", "fail"} : CloseConsoleEnd(c, d)
  \/ \E c \in Closers : ConPtyCloseLock(c)
  \/ \E c \in Closers, d \in {"ok", "fail"} : ConPtyCloseEnd(c, d)
  \/ \E c \in Closers : ConPtyClosePipe(c)
  \/ \E op \in {"Setsize", "GetsizeFull"} : ResizeCall(op)
  \/ ResizeLock
  \/ \E o \in {"ok", "fail"}, sz \in Sizes \cup {NoSize} : ResizeReturn(o, sz)
  \/ \E op \in {"Setsize", "GetsizeFull"} : LegacyResizeCall(op)
  \/ \E o \in {"ok", "fail"}, sz \in Sizes \cup {NoSize} : LegacyResizeReturn(o, sz)

LiveSpec == InitLive /\ [][NextLive]_vars /\ Fairness

\* C28: under fair scheduling no task stays blocked for ever.  Each
\* conjunct says that a blocked condition does not hold from some point on
\* for ever; as each condition, once true, stays true until the task goes
\* on, this is "blocked leads to unblocked".  In order: an exited child
\* whose monitor was started leads to cmdDone closed; a Wait blocked on
\* cmdDone after the child's exit returns; closeMutex, once taken, is
\* released; the monitor, setsize / getsizeFull and conPty.Close do not
\* stay at their Lock.
C28_MonitorCompletes ==
  /\ []<>(~(child = "exited" /\ mon # "none") \/ cmdDone)
  /\ \A w \in Waiters : []<>(~(waiter[w].pc = "blocked" /\ child = "exited"))
  /\ []<>(closeMutex = "free")
  /\ []<>(mon # "teardown")
  /\ []<>(resizer.pc # "lock")
  /\ \A c \in Closers : []<>(closer[c].pc # "lock")

\* C23: the session of a pipe-backed pair reads the read end of the input
\* pipe and writes the write end of the output pipe; the master endpoint
\* holds pr and pw, the slave endpoint consoler and consolew.
C23_AllocationWiring ==
  (api = "opened" /\ impl \in {"conpty", "legacy"})
    => /\ wiring = [in |-> "consoler", out |-> "consolew"]
       /\ EndR("master") = "pr" /\ EndW("master") = "pw"
       /\ EndR("slave") = "consoler" /\ EndW("slave") = "consolew"

\* C24: on a host without the pseudo-console facility the allocation fails
\* with ErrUnsupported and has opened nothing.
C24_UnsupportedHost ==
  host = "old"
    => (api = "failed" /\ openErr = "ErrUnsupported" /\ files = NoFiles
        /\ hpc = "none")

\* C25: cmdErr changes only in a step of the monitor, never once it is
\* non-nil and never once cmdDone is closed.
C25_OutcomeWrittenOnce ==
  [][/\ cmdDone => cmdErr' = cmdErr
     /\ cmdErr # "nil" => cmdErr' = cmdErr
     /\ cmdErr' # cmdErr
          => (mon \in {"waiting", "teardown", "destroying"} /\ mon' # mon)]_vars

C25_Witness ==
  /\ cmdDone /\ cmdErr = "CloseErr"
  /\ \E w \in Waiters : waiter[w].pc = "returned" /\ waiter[w].res = "CloseErr"

\* C26: a Wait that has returned holds the process error whenever the child
\* failed or was killed, also when the monitor's destroy call failed; it
\* holds the teardown error only when the child succeeded, and then it does
\* (Close never called, so that the failed destroy call is the monitor's).
\* The outcome a monitor of either variant has recorded when it signals
\* obeys the same preference.
C26_ProcessErrorPreferred ==
  /\ \A w \in Waiters :
       waiter[w].pc = "returned"
         => /\ exitKind \in {"fail", "killed"} => waiter[w].res \in {"ExitErr", "WaitErr"}
            /\ waiter[w].res = "CloseErr" => exitKind = "ok"
            /\ (NoCloseCalled /\ destroyFailed /\ exitKind = "ok")
                 => waiter[w].res \in {"CloseErr", "WaitErr"}
  /\ cmdDone
       => /\ exitKind \in {"fail", "killed"} => cmdErr \in {"ExitErr", "WaitErr"}
          /\ cmdErr = "CloseErr" => exitKind = "ok"

C26_Witness ==
  /\ \E w \in Waiters : waiter[w].pc = "returned" /\ waiter[w].res = "ExitErr"
  /\ exitKind = "fail" /\ destroyFailed /\ NoCloseCalled

\* C27: a conPty.Close whose destroy call failed, the only call made on a
\* pair from Open, returned that error and left the pair not closed, the
\* handle valid and all pipe ends open; when a conPty.Close marked the pair
\* closed after a destroy call had failed, the destroy was called again.
C27_FailedDestroyKeepsPair ==
  /\ (/\ api = "opened" /\ calls = 1
      /\ closer["c1"].method = "conPty" /\ closer["c1"].returned
      /\ closer["c1"].err # {})
       => /\ closer["c1"].err = {"DestroyErr"}
          /\ ~closed /\ console = "valid"
          /\ \A f \in PipeEnds : files[f] = "open"
  /\ (api = "opened" /\ closed /\ destroyFailed /\ OnlyCalls("conPty"))
       => destroyCalls >= 2

C27_Witness ==
  /\ api = "opened" /\ calls = 1
  /\ closer["c1"].method = "conPty" /\ closer["c1"].returned
  /\ closer["c1"].err = {"DestroyErr"}
  /\ ~closed /\ console = "valid"

\* C29: on a pipe-backed pair from Open on which only the slave endpoint was closed, no
\* destroy call was issued, the handle is valid, the pair not closed, the
\* session alive and the master's two pipe ends open.
C29_SlaveCloseFrame ==
  (api = "opened" /\ impl \in {"conpty", "legacy"} /\ OnlyCalls("slave"))
    => /\ destroyCalls = 0 /\ inDestroy = 0
       /\ console = "valid" /\ ~closed /\ hpc = "live"
       /\ files["pr"] = "open" /\ files["pw"] = "open"

C29_Witness ==
  /\ api = "opened" /\ impl = "conpty"
  /\ closer["c1"].method = "slave" /\ closer["c1"].returned
  /\ files["consoler"] = "closed" /\ files["consolew"] = "closed"
  /\ files["pr"] = "open" /\ console = "valid"

====
